---- MODULE Spec2Model ----
(***************************************************************************)
(* memtorch.mn.Conv3d: a 3-D convolution layer patched to run on a         *)
(* simulated memristive crossbar.  The model covers construction           *)
(* (__init__), forward in direct ("legacy") and simulated mode, and tune.  *)
(* Tensors hold exact rationals <<numerator, denominator>>; a zero         *)
(* denominator is the non-finite value produced by a division by zero.     *)
(***************************************************************************)
EXTENDS Integers, Sequences, FiniteSets, TLC

(***************************************************************************)
(* Bounds of the model.                                                    *)
(***************************************************************************)
MaxBatch == 2
MaxSize == 2

(***************************************************************************)
(* Real arithmetic.                                                        *)
(***************************************************************************)
NaN == <<0, 0>>

Abs(n) == IF n < 0 THEN -n ELSE n

RECURSIVE GCD(_, _)
GCD(a, b) == IF b = 0 THEN a ELSE GCD(b, a % b)

Rat(n, d) ==
    IF d = 0 THEN NaN
    ELSE LET g == GCD(Abs(n), Abs(d))
             s == IF d < 0 THEN -1 ELSE 1
         IN  <<(s * n) \div g, (s * d) \div g>>

R(n) == <<n, 1>>

IsNaN(a) == a[2] = 0

RAdd(a, b) ==
    IF IsNaN(a) \/ IsNaN(b) THEN NaN
    ELSE IF a[2] = 1 /\ b[2] = 1 THEN <<a[1] + b[1], 1>>
    ELSE LET g == GCD(a[2], b[2])
         IN  Rat(a[1] * (b[2] \div g) + b[1] * (a[2] \div g), (a[2] \div g) * b[2])

RSub(a, b) ==
    IF IsNaN(a) \/ IsNaN(b) THEN NaN
    ELSE IF a[2] = 1 /\ b[2] = 1 THEN <<a[1] - b[1], 1>>
    ELSE LET g == GCD(a[2], b[2])
         IN  Rat(a[1] * (b[2] \div g) - b[1] * (a[2] \div g), (a[2] \div g) * b[2])

RMul(a, b) ==
    IF IsNaN(a) \/ IsNaN(b) THEN NaN
    ELSE IF a[2] = 1 /\ b[2] = 1 THEN <<a[1] * b[1], 1>>
    ELSE Rat(a[1] * b[1], a[2] * b[2])

RDiv(a, b) ==
    IF IsNaN(a) \/ IsNaN(b) THEN NaN
    ELSE Rat(a[1] * b[2], a[2] * b[1])

RLess(a, b) == a[1] * b[2] < b[1] * a[2]

\* the sum f[0] + ... + f[n-1]
RECURSIVE RSumTo(_, _)
RSumTo(f, n) == IF n = 0 THEN R(0) ELSE RAdd(RSumTo(f, n - 1), f[n - 1])

RMin(S) == CHOOSE m \in S : \A v \in S : ~RLess(v, m)
RMax(S) == CHOOSE m \in S : \A v \in S : ~RLess(m, v)

\* floor(a + 1/2) for a finite rational a
RRound(a) == (2 * a[1] + a[2]) \div (2 * a[2])

(***************************************************************************)
(* Python values that may be None, tagged with their type.                 *)
(***************************************************************************)
None == [type |-> "NoneType", val |-> R(0)]
PyInt(n) == [type |-> "int", val |-> R(n)]
PyFloat(n, d) == [type |-> "float", val |-> Rat(n, d)]
PyStr == [type |-> "str", val |-> R(0)]
IsNone(v) == v.type = "NoneType"

(***************************************************************************)
(* Tensors: [shape |-> tuple of sizes, data |-> function on 0-based        *)
(* index tuples].                                                          *)
(***************************************************************************)
Range(n) == 0 .. (n - 1)

Idx2(s) == Range(s[1]) \X Range(s[2])
Idx4(s) == Range(s[1]) \X Range(s[2]) \X Range(s[3]) \X Range(s[4])
Idx5(s) == Range(s[1]) \X Range(s[2]) \X Range(s[3]) \X Range(s[4]) \X Range(s[5])

Elems(t) == {t.data[i] : i \in DOMAIN t.data}

Zeros5(s) == [shape |-> s, data |-> [i \in Idx5(s) |-> R(0)]]

\* input[batch]
Select(t, batch) ==
    [shape |-> <<t.shape[2], t.shape[3], t.shape[4], t.shape[5]>>,
     data |-> [i \in Idx4(<<t.shape[2], t.shape[3], t.shape[4], t.shape[5]>>) |->
                  t.data[<<batch, i[1], i[2], i[3], i[4]>>]]]

(***************************************************************************)
(* Helpers of forward.  self is the layer: [conv, weight, bias, config,    *)
(* forward_legacy_enabled, crossbars, transform_output, non_linear].       *)
(***************************************************************************)
\* Python's int(a / b): true division, then truncation toward zero
PyIntOfDiv(a, b) == IF a >= 0 THEN a \div b ELSE -((-a) \div b)

\* an output size that counts the padding on one side only
OutputDimOneSidedPadding(self, input) ==
    [i \in 1..3 |->
        PyIntOfDiv(input.shape[i + 2] - self.conv.kernel_size[i] + self.conv.padding[i],
                   self.conv.stride[i]) + 1]

\* output_dim[i] = int((input.shape[i+2] - kernel_size[i] + 2*padding[i]) / stride[i]) + 1
OutputDim(self, input) ==
    [i \in 1..3 |->
        PyIntOfDiv(input.shape[i + 2] - self.conv.kernel_size[i]
                       + 2 * self.conv.padding[i],
                   self.conv.stride[i]) + 1]

\* nn.functional.pad(input[batch], pad=(p2, p2, p1, p1, p0, p0)), skipped when
\* every padding is 0
PadInput(self, x) ==
    LET p == self.conv.padding
        s == <<x.shape[1], x.shape[2] + 2 * p[1], x.shape[3] + 2 * p[2],
               x.shape[4] + 2 * p[3]>>
        inside(i) == /\ i[2] >= p[1] /\ i[2] < p[1] + x.shape[2]
                     /\ i[3] >= p[2] /\ i[3] < p[2] + x.shape[3]
                     /\ i[4] >= p[3] /\ i[4] < p[3] + x.shape[4]
    IN  IF \A a \in 1..3 : p[a] = 0 THEN x
        ELSE [shape |-> s,
              data |-> [i \in Idx4(s) |->
                          IF inside(i)
                          THEN x.data[<<i[1], i[2] - p[1], i[3] - p[2], i[4] - p[3]>>]
                          ELSE R(0)]]

\* memtorch.utils.convert_range, elementwise
ConvertRange(t, old_min, old_max, new_min, new_max) ==
    [shape |-> t.shape,
     data |-> [i \in DOMAIN t.data |->
                 RAdd(RDiv(RMul(RSub(t.data[i], old_min), RSub(new_max, new_min)),
                           RSub(old_max, old_min)),
                      new_min)]]

\* an assertion that lets a zero voltage through
MaxInputVoltageNotNegative(v) ==
    /\ v.type \in {"int", "float"}
    /\ ~RLess(v.val, R(0))

\* the assertion on max_input_voltage inside the batch loop
MaxInputVoltageValid(v) ==
    /\ v.type \in {"int", "float"}
    /\ RLess(R(0), v.val)

\* number of windows Tensor.unfold(dim, size, step) produces on each spatial axis
NumWindows(self, x) ==
    [a \in 1..3 |-> (x.shape[a + 1] - self.conv.kernel_size[a]) \div self.conv.stride[a] + 1]

\* Tensor.unfold raises when the window is larger than the dimension
UnfoldFits(self, x) == \A a \in 1..3 : self.conv.kernel_size[a] <= x.shape[a + 1]

KernelVolume(self) ==
    self.conv.kernel_size[1] * self.conv.kernel_size[2] * self.conv.kernel_size[3]

\* batch_input.unfold(1,..).unfold(2,..).unfold(3,..).permute(1,2,3,0,4,5,6)
\*     .reshape(-1, in_channels * k0 * k1 * k2)
Unfold(self, x) ==
    LET k == self.conv.kernel_size
        st == self.conv.stride
        n == NumWindows(self, x)
        rows == n[1] * n[2] * n[3]
        cols == self.conv.in_channels * KernelVolume(self)
        elem(r, q) ==
            LET d == r \div (n[2] * n[3])
                h == (r \div n[3]) % n[2]
                w == r % n[3]
                c == q \div (k[1] * k[2] * k[3])
                i == (q \div (k[2] * k[3])) % k[1]
                j == (q \div k[3]) % k[2]
                l == q % k[3]
            IN  x.data[<<c, d * st[1] + i, h * st[2] + j, w * st[3] + l>>]
    IN  [shape |-> <<rows, cols>>,
         data |-> [rq \in Idx2(<<rows, cols>>) |-> elem(rq[1], rq[2])]]

\* torch.matmul of two matrices
MatMul(A, B) ==
    [shape |-> <<A.shape[1], B.shape[2]>>,
     data |-> [ro \in Idx2(<<A.shape[1], B.shape[2]>>) |->
                 RSumTo([q \in Range(A.shape[2]) |->
                            RMul(A.data[<<ro[1], q>>], B.data[<<q, ro[2]>>])],
                        A.shape[2])]]

\* Tensor.T
Transpose(A) ==
    [shape |-> <<A.shape[2], A.shape[1]>>,
     data |-> [i \in Idx2(<<A.shape[2], A.shape[1]>>) |-> A.data[<<i[2], i[1]>>]]]

\* out_.view(size=(1, out_channels, *output_dim)) fits when the element counts agree
ViewFits(self, outT, od) ==
    outT.shape[1] * outT.shape[2] = self.conv.out_channels * od[1] * od[2] * od[3]

\* out_.view(size=(1, out_channels, *output_dim)), without the leading axis of size 1
View(self, outT, od) ==
    LET s == <<self.conv.out_channels, od[1], od[2], od[3]>>
    IN  [shape |-> s,
         data |-> [i \in Idx4(s) |->
                     LET flat == ((i[1] * od[1] + i[2]) * od[2] + i[3]) * od[3] + i[4]
                     IN  outT.data[<<flat \div outT.shape[2], flat % outT.shape[2]>>]]]

(***************************************************************************)
(* External collaborators, modelled from their interfaces.                 *)
(***************************************************************************)
RECURSIVE Pow2(_)
Pow2(n) == IF n = 0 THEN 1 ELSE 2 * Pow2(n - 1)

\* memtorch.bh.Quantize.quantize: round each readout to the nearest level and
\* clip it to the signed range of `quant` bits
QuantizeValue(v, quant) ==
    IF IsNaN(v) THEN v
    ELSE LET r == RRound(v)
             lo == -Pow2(quant - 1)
             hi == Pow2(quant - 1) - 1
         IN  R(IF r < lo THEN lo ELSE IF r > hi THEN hi ELSE r)

Quantize(t, quant, overflow_rate, quant_method) ==
    [shape |-> t.shape,
     data |-> [i \in DOMAIN t.data |-> QuantizeValue(t.data[i], quant.val[1])]]

\* init_crossbar: the conductance matrix is the weight unfolded to
\* [in_channels * k0 * k1 * k2, out_channels], scaled by the device's gain
\* (gain 1 is the ideal device)
InitCrossbar(weight, gain) ==
    LET O == weight.shape[1]
        K == weight.shape[2] * weight.shape[3] * weight.shape[4] * weight.shape[5]
        k == <<weight.shape[3], weight.shape[4], weight.shape[5]>>
    IN  [rows |-> K, columns |-> O,
         conductance_matrix |->
            [shape |-> <<K, O>>,
             data |-> [qo \in Idx2(<<K, O>>) |->
                LET q == qo[1]
                IN  RMul(R(gain),
                         weight.data[<<qo[2], q \div (k[1] * k[2] * k[3]),
                                       (q \div (k[2] * k[3])) % k[1],
                                       (q \div k[3]) % k[2], q % k[3]>>])]]]

\* crossbar_operation(crossbars, lambda crossbar: crossbar.conductance_matrix)
CrossbarOperation(crossbars) == crossbars.conductance_matrix

\* gen_tiles + tile_matmul: the shared dimension is cut into blocks of
\* tile_shape[0] rows; each block's partial product is read out (quantized when
\* a quantization method is set) and the partial products are summed
TileMatMul(U, cm, tile_shape, ADC_resolution, ADC_overflow_rate, quant_method) ==
    LET th == tile_shape.val[1]
        K == U.shape[2]
        nblocks == (K + th - 1) \div th
        block(b) == {q \in Range(K) : q \div th = b}
        partial(b, ro) ==
            LET terms == [q \in Range(K) |->
                            IF q \in block(b)
                            THEN RMul(U.data[<<ro[1], q>>], cm.data[<<q, ro[2]>>])
                            ELSE R(0)]
                v == RSumTo(terms, K)
            IN  IF IsNone(quant_method) THEN v ELSE QuantizeValue(v, ADC_resolution.val[1])
    IN  [shape |-> <<U.shape[1], cm.shape[2]>>,
         data |-> [ro \in Idx2(<<U.shape[1], cm.shape[2]>>) |->
                     RSumTo([b \in Range(nblocks) |-> partial(b, ro)], nblocks)]]

(***************************************************************************)
(* forward, direct mode: torch.nn.functional.conv3d.                       *)
(***************************************************************************)
Conv3dOutputDim(input, weight, stride, padding) ==
    [a \in 1..3 |->
        (input.shape[a + 2] + 2 * padding[a] - weight.shape[a + 2]) \div stride[a] + 1]

Conv3dFits(input, weight, stride, padding) ==
    /\ input.shape[2] = weight.shape[2]
    /\ \A a \in 1..3 : input.shape[a + 2] + 2 * padding[a] >= weight.shape[a + 2]

Conv3dFunctional(input, weight, bias, stride, padding) ==
    LET od == Conv3dOutputDim(input, weight, stride, padding)
        s == <<input.shape[1], weight.shape[1], od[1], od[2], od[3]>>
        C == weight.shape[2]
        kk == <<weight.shape[3], weight.shape[4], weight.shape[5]>>
        at(n, c, d, h, w) ==
            IF /\ d >= 0 /\ d < input.shape[3]
               /\ h >= 0 /\ h < input.shape[4]
               /\ w >= 0 /\ w < input.shape[5]
            THEN input.data[<<n, c, d, h, w>>]
            ELSE R(0)
        taps == Range(C) \X Range(kk[1]) \X Range(kk[2]) \X Range(kk[3])
        RECURSIVE Acc(_, _)
        Acc(T, i) ==
            IF T = {} THEN R(0)
            ELSE LET t == CHOOSE tap \in T : TRUE
                 IN  RAdd(RMul(at(i[1], t[1],
                                  i[3] * stride[1] + t[2] - padding[1],
                                  i[4] * stride[2] + t[3] - padding[2],
                                  i[5] * stride[3] + t[4] - padding[3]),
                               weight.data[<<i[2], t[1], t[2], t[3], t[4]>>]),
                          Acc(T \ {t}, i))
    IN  [shape |-> s,
         data |-> [i \in Idx5(s) |->
                     IF IsNone(bias) THEN Acc(taps, i)
                     ELSE RAdd(Acc(taps, i), bias.data[i[2]])]]

(***************************************************************************)
(* forward, simulated mode.                                                *)
(***************************************************************************)
NoTensor == Zeros5(<<0, 0, 0, 0, 0>>)

Identity == [kind |-> "identity", scale |-> R(1), shift |-> R(0)]

\* self.transform_output(out)
ApplyTransform(transform, out) ==
    IF transform.kind = "identity" THEN out
    ELSE [shape |-> out.shape,
          data |-> [i \in DOMAIN out.data |->
                      RAdd(RMul(out.data[i], transform.scale), transform.shift)]]

\* out[batch] = slot
SetSlot(out, batch, slot) ==
    [shape |-> out.shape,
     data |-> [i \in DOMAIN out.data |->
                 IF i[1] = batch THEN slot.data[<<i[2], i[3], i[4], i[5]>>]
                 ELSE out.data[i]]]

\* out[batch] += self.bias.data.view(-1, 1, 1, 1).expand_as(out[batch])
AddBias(out, batch, bias) ==
    [shape |-> out.shape,
     data |-> [i \in DOMAIN out.data |->
                 IF i[1] = batch THEN RAdd(out.data[i], bias.data[i[2]])
                 ELSE out.data[i]]]

\* the matmul dispatch of one batch element, for the paths that are not the
\* non-linear one: [out_ |-> the transposed result, invoked |-> collaborators used]
Dispatch(self, unfolded_batch_input) ==
    LET cm == CrossbarOperation(self.crossbars)
        c == self.config
    IN  IF ~IsNone(c.tile_shape)
        THEN [out_ |-> Transpose(TileMatMul(unfolded_batch_input, cm, c.tile_shape,
                                            c.ADC_resolution, c.ADC_overflow_rate,
                                            c.quant_method)),
              invoked |-> {"crossbar_operation", "tile_matmul"}]
        ELSE IF ~IsNone(c.quant_method)
        THEN [out_ |-> Quantize(Transpose(MatMul(unfolded_batch_input, cm)),
                                c.ADC_resolution, c.ADC_overflow_rate, c.quant_method),
              invoked |-> {"crossbar_operation", "quantize"}]
        ELSE [out_ |-> Transpose(MatMul(unfolded_batch_input, cm)),
              invoked |-> {"crossbar_operation"}]

\* lines 205-218: the input of one batch element, rescaled to
\* [-max_input_voltage, max_input_voltage] when a maximum is set
EncodeInput(self, padded) ==
    IF IsNone(self.config.max_input_voltage) THEN padded
    ELSE ConvertRange(padded, RMin(Elems(padded)), RMax(Elems(padded)),
                      RSub(R(0), self.config.max_input_voltage.val),
                      self.config.max_input_voltage.val)

\* what one iteration that raised e leaves behind
Raised(e) == [status |-> e, wrote |-> FALSE, slot |-> NoTensor, invoked |-> {}]

\* line 317: the result d of the dispatch is viewed as one batch slot
WriteSlot(self, od, d) ==
    IF ~ViewFits(self, d.out_, od) THEN Raised("RuntimeError")
    ELSE [status |-> "ok", wrote |-> TRUE, slot |-> View(self, d.out_, od),
          invoked |-> d.invoked]

\* the iteration on the padded input of one batch element
BatchBodyOn(self, od, padded) ==
    IF /\ ~IsNone(self.config.max_input_voltage)
       /\ ~MaxInputVoltageValid(self.config.max_input_voltage)
    THEN Raised("AssertionError")
    ELSE IF ~UnfoldFits(self, padded) THEN Raised("RuntimeError")
    ELSE IF self.non_linear
    THEN \* out_ is computed by simulate_matmul and dropped
         [status |-> "ok", wrote |-> FALSE, slot |-> NoTensor,
          invoked |-> {"crossbar_operation", "simulate_matmul"}]
    ELSE WriteSlot(self, od, Dispatch(self, Unfold(self, EncodeInput(self, padded))))

\* one iteration of `for batch in range(input.shape[0])`
BatchBody(self, input, od, batch) ==
    BatchBodyOn(self, od, PadInput(self, Select(input, batch)))

\* the loop's state after the iteration of `batch` ended as b
LoopStep(acc, batch, b) ==
    IF b.status # "ok" THEN [acc EXCEPT !.status = b.status]
    ELSE [status |-> "ok",
          out |-> IF b.wrote THEN SetSlot(acc.out, batch, b.slot) ELSE acc.out,
          written |-> IF b.wrote THEN acc.written \cup {batch} ELSE acc.written,
          invoked |-> acc.invoked \cup b.invoked]

\* the batch loop from iteration `batch` on; an iteration that raises ends it
RECURSIVE BatchLoop(_, _, _, _, _)
BatchLoop(self, input, od, batch, acc) ==
    IF batch = input.shape[1] \/ acc.status # "ok" THEN acc
    ELSE BatchLoop(self, input, od, batch + 1,
                   LoopStep(acc, batch, BatchBody(self, input, od, batch)))

\* the batch slots the bias is added to; after the loop `batch` is its last value
BiasSlots(input) == {input.shape[1] - 1}

RECURSIVE AddBiasTo(_, _, _)
AddBiasTo(out, slots, bias) ==
    IF slots = {} THEN out
    ELSE LET slot == CHOOSE sl \in slots : TRUE
         IN  AddBiasTo(AddBias(out, slot, bias), slots \ {slot}, bias)

\* what a simulated forward that raised e leaves behind
Failed(e, od) ==
    [status |-> e, mode |-> "simulated", output_dim |-> od,
     out |-> NoTensor, written |-> {}, invoked |-> {}]

\* lines 319-323: the transform, then the bias
AfterLoop(self, input, od, loop) ==
    IF loop.status # "ok" THEN Failed(loop.status, od)
    ELSE [status |-> "ok", mode |-> "simulated", output_dim |-> od,
          out |-> IF IsNone(self.bias)
                  THEN ApplyTransform(self.transform_output, loop.out)
                  ELSE AddBiasTo(ApplyTransform(self.transform_output, loop.out),
                                 BiasSlots(input), self.bias),
          written |-> loop.written,
          invoked |-> loop.invoked \cup {"transform_output"}]

\* lines 180-323, with output_dim computed
ForwardSimulatedTo(self, input, od) ==
    IF \E a \in 1..3 : od[a] < 0 THEN Failed("RuntimeError", od)
    ELSE AfterLoop(self, input, od,
                   BatchLoop(self, input, od, 0,
                             [status |-> "ok",
                              out |-> Zeros5(<<input.shape[1], self.conv.out_channels,
                                               od[1], od[2], od[3]>>),
                              written |-> {}, invoked |-> {}]))

ForwardSimulated(self, input) ==
    ForwardSimulatedTo(self, input, OutputDim(self, input))

ForwardDirect(self, input) ==
    IF ~Conv3dFits(input, self.weight.data, self.conv.stride, self.conv.padding)
    THEN [status |-> "RuntimeError", mode |-> "direct", output_dim |-> <<0, 0, 0>>,
          out |-> NoTensor, written |-> {}, invoked |-> {}]
    ELSE [status |-> "ok", mode |-> "direct", output_dim |-> <<0, 0, 0>>,
          out |-> Conv3dFunctional(input, self.weight.data, self.bias,
                                   self.conv.stride, self.conv.padding),
          written |-> {}, invoked |-> {}]

\* Conv3d.forward
ForwardResult(self, input) ==
    IF self.forward_legacy_enabled THEN ForwardDirect(self, input)
    ELSE ForwardSimulated(self, input)

(***************************************************************************)
(* tune: naive_tune fits an affine map from the layer's simulated output   *)
(* to its exact dense convolution, by ordinary least squares.              *)
(***************************************************************************)
\* the sum f[lo] + ... + f[hi], by halves
RECURSIVE RSumRange(_, _, _)
RSumRange(f, lo, hi) ==
    IF lo > hi THEN R(0)
    ELSE IF lo = hi THEN f[lo]
    ELSE LET mid == (lo + hi) \div 2
         IN  RAdd(RSumRange(f, lo, mid), RSumRange(f, mid + 1, hi))

\* tensor.reshape(-1): the elements of a 5-D tensor in row-major order
Flatten(t) ==
    LET s == t.shape
    IN  [n \in Range(s[1] * s[2] * s[3] * s[4] * s[5]) |->
            t.data[<<n \div (s[2] * s[3] * s[4] * s[5]),
                     (n \div (s[3] * s[4] * s[5])) % s[2],
                     (n \div (s[4] * s[5])) % s[3],
                     (n \div s[5]) % s[4],
                     n % s[5]>>]]

\* LinearRegression(fit_intercept=True).fit(x, y) on paired samples; with no
\* spread in x the slope is 0 and the intercept the mean of y
LeastSquares(x, y) ==
    LET last == Cardinality(DOMAIN x) - 1
        n == R(last + 1)
        Sx == RSumRange(x, 0, last)
        Sy == RSumRange(y, 0, last)
        Sxx == RSumRange([m \in DOMAIN x |-> RMul(x[m], x[m])], 0, last)
        Sxy == RSumRange([m \in DOMAIN x |-> RMul(x[m], y[m])], 0, last)
        den == RSub(RMul(n, Sxx), RMul(Sx, Sx))
        scale == IF den = R(0) THEN R(0)
                 ELSE RDiv(RSub(RMul(n, Sxy), RMul(Sx, Sy)), den)
    IN  [kind |-> "affine", scale |-> scale,
         shift |-> RDiv(RSub(Sy, RMul(scale, Sx)), n)]

\* the samples can be fitted: there is at least one, and all are finite
Fittable(x, y) ==
    /\ DOMAIN x # {}
    /\ \A i \in DOMAIN x : ~IsNaN(x[i]) /\ ~IsNaN(y[i])

\* the regression naive_tune makes of the reference result ref on the
\* simulated result sim: [status, transform_output]
FitTransform(sim, ref) ==
    IF sim.status # "ok" THEN [status |-> sim.status, transform_output |-> Identity]
    ELSE IF ref.status # "ok"
    THEN [status |-> ref.status, transform_output |-> Identity]
    ELSE IF ~Fittable(Flatten(sim.out), Flatten(ref.out))
    THEN [status |-> "ValueError", transform_output |-> Identity]
    ELSE [status |-> "ok",
          transform_output |-> LeastSquares(Flatten(sim.out), Flatten(ref.out))]

\* naive_tune(self, input_shape, verbose) on the synthetic input it draws
NaiveTune(self, input) ==
    CHOOSE t \in {FitTransform(sim, ref) :
                    sim \in {ForwardResult([self EXCEPT !.forward_legacy_enabled = FALSE],
                                           input)},
                    ref \in {ForwardResult([self EXCEPT !.forward_legacy_enabled = TRUE],
                                           input)}} : TRUE

(***************************************************************************)
(* The layer and its callers.                                              *)
(***************************************************************************)
VARIABLES
    pc,                      \* "new", "constructed", or "raised" (__init__ failed)
    ctor_args,               \* the arguments __init__ was called with
    conv,                    \* in_channels, out_channels, kernel_size, stride, padding
    weight,                  \* self.weight: [data, requires_grad]
    bias,                    \* self.bias: None or [data, requires_grad]
    config,                  \* tile_shape, max_input_voltage, ADC_*, quant_method
    forward_legacy_enabled,
    crossbars,               \* what init_crossbar returned
    transform_output,
    non_linear,              \* hasattr(self, "non_linear")
    init_crossbar_calls,     \* number of calls of init_crossbar so far
    call                     \* the last call made on the layer and its result

vars == <<pc, ctor_args, conv, weight, bias, config, forward_legacy_enabled, crossbars,
          transform_output, non_linear, init_crossbar_calls, call>>

layer == <<conv, weight, bias, config, crossbars>>

NoBias == [type |-> "NoneType", data |-> <<>>, requires_grad |-> FALSE]
NoQuant == [type |-> "NoneType", name |-> ""]
QuantMethod(name) == [type |-> "str", name |-> name]
TileShape(r, c) == [type |-> "tuple", val |-> <<r, c>>]

\* memtorch.bh.Quantize.quant_methods, as the docstring lists them
quant_methods == {"linear", "log", "log_minmax", "minmax", "tanh"}

Self ==
    [conv |-> conv, weight |-> weight, bias |-> bias, config |-> config,
     forward_legacy_enabled |-> forward_legacy_enabled, crossbars |-> crossbars,
     transform_output |-> transform_output, non_linear |-> non_linear]

NoCall(op, status) ==
    [op |-> op, status |-> status, mode |-> "none", input |-> NoTensor,
     out |-> NoTensor, output_dim |-> <<0, 0, 0>>,
     written |-> {}, invoked |-> {}]

NoLayer ==
    [conv |-> [in_channels |-> 0, out_channels |-> 0, kernel_size |-> <<0, 0, 0>>,
               stride |-> <<0, 0, 0>>, padding |-> <<0, 0, 0>>],
     weight |-> [data |-> NoTensor, requires_grad |-> TRUE],
     bias |-> NoBias,
     config |-> [tile_shape |-> None, max_input_voltage |-> None,
                 ADC_resolution |-> None, ADC_overflow_rate |-> None,
                 quant_method |-> NoQuant],
     crossbars |-> [rows |-> 0, columns |-> 0,
                    conductance_matrix |-> [shape |-> <<0, 0>>, data |-> <<>>]]]

NoArgs ==
    [convolutional_layer |->
        [class |-> "", in_channels |-> 0, out_channels |-> 0,
         kernel_size |-> <<0, 0, 0>>, stride |-> <<0, 0, 0>>, padding |-> <<0, 0, 0>>,
         weight |-> NoTensor, bias |-> NoBias],
     gain |-> 0, tile_shape |-> None, max_input_voltage |-> None,
     ADC_resolution |-> None, ADC_overflow_rate |-> None, quant_method |-> NoQuant,
     kwargs_bias |-> TRUE, init_bias |-> <<>>]

Init ==
    /\ pc = "new"
    /\ ctor_args = NoArgs
    /\ conv = NoLayer.conv
    /\ weight = NoLayer.weight
    /\ bias = NoLayer.bias
    /\ config = NoLayer.config
    /\ forward_legacy_enabled = FALSE
    /\ crossbars = NoLayer.crossbars
    /\ transform_output = Identity
    /\ non_linear = FALSE
    /\ init_crossbar_calls = 0
    /\ call = NoCall("none", "ok")

\* self.quant_method as __init__ stores it
StoredQuantMethod(quant_method) ==
    IF ~IsNone(quant_method) /\ quant_method.name \in quant_methods
    THEN quant_method ELSE NoQuant

\* the assertions __init__ makes on its arguments
InitAssertions(a) ==
    /\ a.convolutional_layer.class = "Conv3d"
    /\ ~IsNone(a.quant_method) =>
          /\ ~IsNone(a.ADC_resolution)
          /\ a.ADC_resolution.type = "int"
          /\ RLess(R(0), a.ADC_resolution.val)
          /\ ~IsNone(a.ADC_overflow_rate)

\* self.bias after super().__init__(..., **kwargs): a freshly initialised
\* parameter unless kwargs say bias=False
SuperInitBias(a) ==
    IF a.kwargs_bias
    THEN [type |-> "Parameter", data |-> a.init_bias, requires_grad |-> TRUE]
    ELSE NoBias

\* self.bias after the copy from the source layer and the freezing of gradients
CopiedBias(a) ==
    IF IsNone(a.convolutional_layer.bias) THEN SuperInitBias(a)
    ELSE [type |-> "Parameter", data |-> a.convolutional_layer.bias.data,
          requires_grad |-> FALSE]

\* a layer that starts in simulated mode
InitialLegacySimulated == FALSE

\* forward_legacy_enabled as __init__ sets it
InitialLegacy == TRUE

\* Conv3d.__init__
Construct(a) ==
    /\ pc = "new"
    /\ ctor_args' = a
    /\ IF ~InitAssertions(a)
       THEN /\ pc' = "raised"
            /\ call' = NoCall("__init__", "AssertionError")
            /\ UNCHANGED <<layer, forward_legacy_enabled, transform_output,
                           non_linear, init_crossbar_calls>>
       ELSE IF ~IsNone(a.convolutional_layer.bias) /\ IsNone(SuperInitBias(a))
       THEN \* self.bias.data = ... on a layer built with bias=False
            /\ pc' = "raised"
            /\ call' = NoCall("__init__", "AttributeError")
            /\ UNCHANGED <<layer, forward_legacy_enabled, transform_output,
                           non_linear, init_crossbar_calls>>
       ELSE /\ pc' = "constructed"
            /\ config' = [tile_shape |-> a.tile_shape,
                          max_input_voltage |-> a.max_input_voltage,
                          ADC_resolution |-> a.ADC_resolution,
                          ADC_overflow_rate |-> a.ADC_overflow_rate,
                          quant_method |-> StoredQuantMethod(a.quant_method)]
            /\ forward_legacy_enabled' = InitialLegacy
            /\ conv' = [in_channels |-> a.convolutional_layer.in_channels,
                        out_channels |-> a.convolutional_layer.out_channels,
                        kernel_size |-> a.convolutional_layer.kernel_size,
                        stride |-> a.convolutional_layer.stride,
                        padding |-> a.convolutional_layer.padding]
            /\ weight' = [data |-> a.convolutional_layer.weight,
                          requires_grad |-> FALSE]
            /\ bias' = CopiedBias(a)
            /\ crossbars' = InitCrossbar(a.convolutional_layer.weight, a.gain)
            /\ init_crossbar_calls' = init_crossbar_calls + 1
            /\ transform_output' = Identity
            /\ call' = NoCall("__init__", "ok")
            /\ UNCHANGED non_linear

\* a forward that programs the crossbars again on every call
ForwardReprogramming(input) ==
    /\ pc = "constructed"
    /\ input.shape[2] = conv.in_channels
    /\ call' = [op |-> "forward", input |-> input] @@ ForwardResult(Self, input)
    /\ crossbars' = InitCrossbar(weight.data, ctor_args.gain)
    /\ init_crossbar_calls' = init_crossbar_calls + 1
    /\ UNCHANGED <<pc, ctor_args, conv, weight, bias, config, forward_legacy_enabled,
                   transform_output, non_linear>>

\* Conv3d.forward(input)
Forward(input) ==
    /\ pc = "constructed"
    /\ input.shape[2] = conv.in_channels
    /\ call' = [op |-> "forward", input |-> input] @@ ForwardResult(Self, input)
    /\ UNCHANGED <<pc, ctor_args, layer, forward_legacy_enabled, transform_output, non_linear,
                   init_crossbar_calls>>

\* self.transform_output = naive_tune(...): a tune that raised assigns nothing
Assign(t, input) ==
    /\ transform_output' =
          IF t.status = "ok" THEN t.transform_output ELSE transform_output
    /\ call' = [NoCall("tune", t.status) EXCEPT !.input = input]

\* Conv3d.tune(input_batch_size, input_shape), on the synthetic input drawn
Tune(input) ==
    /\ pc = "constructed"
    /\ input.shape[2] = conv.in_channels
    /\ input.shape[3] = input.shape[4] /\ input.shape[4] = input.shape[5]
    /\ \E t \in {NaiveTune(Self, input)} : Assign(t, input)
    /\ UNCHANGED <<pc, ctor_args, layer, forward_legacy_enabled, non_linear, init_crossbar_calls>>

\* a caller switches the layer between direct and simulated mode
SetForwardLegacy(enabled) ==
    /\ pc = "constructed"
    /\ forward_legacy_enabled # enabled
    /\ forward_legacy_enabled' = enabled
    /\ call' = NoCall("set_forward_legacy", "ok")
    /\ UNCHANGED <<pc, ctor_args, layer, transform_output, non_linear, init_crossbar_calls>>

\* a non-linear device model is attached: the layer gains the attribute non_linear
ApplyNonLinear ==
    /\ pc = "constructed"
    /\ ~non_linear
    /\ non_linear' = TRUE
    /\ call' = NoCall("apply_non_linear", "ok")
    /\ UNCHANGED <<pc, ctor_args, layer, forward_legacy_enabled, transform_output,
                   init_crossbar_calls>>

(***************************************************************************)
(* The inputs and constructor arguments the model draws from.              *)
(***************************************************************************)
InputSeeds == {0, 1}

\* seed 0 is the all-ones tensor; the others vary along every axis
MakeInput(N, C, D, H, W, seed) ==
    [shape |-> <<N, C, D, H, W>>,
     data |-> [i \in Idx5(<<N, C, D, H, W>>) |->
                 IF seed = 0 THEN R(1)
                 ELSE R((((i[1] + 2 * i[2] + 3 * i[3] + 5 * i[4] + 7 * i[5] + 1) * seed) % 5)
                        - 2)]]

\* inputs of shape [N, C, s, s, s], as tune draws them
CubeInputs ==
    {MakeInput(N, 1, sz, sz, sz, 1) : N \in 1..MaxBatch, sz \in 1..MaxSize}

\* inputs of every spatial shape
BoxInputs ==
    {MakeInput(sh[1], 1, sh[2], sh[3], sh[4], seed) :
        sh \in (1..MaxBatch) \X (1..MaxSize) \X (1..MaxSize) \X (1..MaxSize),
        seed \in InputSeeds}

\* seed 0 is the all-ones kernel; the others take the values -1, 1, 2
MakeWeight(O, C, k, seed) ==
    [shape |-> <<O, C, k[1], k[2], k[3]>>,
     data |-> [i \in Idx5(<<O, C, k[1], k[2], k[3]>>) |->
                 LET v == (i[1] + 2 * i[2] + i[3] + 2 * i[4] + 3 * i[5] + seed) % 3
                 IN  IF seed = 0 THEN R(1) ELSE IF v = 0 THEN R(-1) ELSE R(v)]]

BiasOf(O, b) ==
    [type |-> "Parameter", data |-> [o \in Range(O) |-> RAdd(b, R(o))],
     requires_grad |-> TRUE]

SourceLayer(class, O, k, s, p, wseed, b) ==
    [class |-> class, in_channels |-> 1, out_channels |-> O, kernel_size |-> k,
     stride |-> s, padding |-> p, weight |-> MakeWeight(O, 1, k, wseed), bias |-> b]

Args(src, gain, tile_shape, miv, adc, overflow, quant, kwargs_bias) ==
    [convolutional_layer |-> src, gain |-> gain, tile_shape |-> tile_shape,
     max_input_voltage |-> miv, ADC_resolution |-> adc, ADC_overflow_rate |-> overflow,
     quant_method |-> quant, kwargs_bias |-> kwargs_bias,
     init_bias |-> [o \in Range(src.out_channels) |-> Rat(1, 2)]]

SourceBiases(O) == {NoBias, BiasOf(O, R(5))}

\* kernel_size, stride, padding
Geometries ==
    {<<<<2, 2, 2>>, <<1, 1, 1>>, <<0, 0, 0>>>>,
     <<<<2, 1, 2>>, <<1, 2, 1>>, <<1, 0, 1>>>>,
     <<<<2, 1, 1>>, <<2, 1, 1>>, <<0, 0, 0>>>>}

BoxGeometries ==
    Geometries \cup
    {<<<<1, 1, 1>>, <<1, 1, 1>>, <<0, 0, 0>>>>,
     <<<<1, 2, 1>>, <<1, 2, 2>>, <<0, 1, 0>>>>,
     <<<<1, 1, 2>>, <<2, 1, 2>>, <<1, 1, 1>>>>}

\* gain, tile_shape, max_input_voltage, ADC_resolution, ADC_overflow_rate, quant_method
IdealDevice == <<1, None, None, None, PyFloat(0, 1), NoQuant>>
GainDevice == <<2, None, None, None, PyFloat(0, 1), NoQuant>>
TiledDevice == <<1, TileShape(2, 2), None, None, PyFloat(0, 1), NoQuant>>

BoxDevices ==
    {IdealDevice, GainDevice, TiledDevice,
     <<1, None, None, PyInt(2), PyFloat(0, 1), QuantMethod("linear")>>,
     <<1, TileShape(2, 2), None, PyInt(2), PyFloat(0, 1), QuantMethod("linear")>>,
     <<1, None, PyInt(1), None, PyFloat(0, 1), NoQuant>>}

\* source bias, bias in kwargs, device: the layers on which every fit of tune
\* is exact
TunedLayers ==
    {<<NoBias, TRUE, IdealDevice>>, <<BiasOf(1, R(5)), TRUE, IdealDevice>>,
     <<BiasOf(1, R(5)), TRUE, TiledDevice>>, <<NoBias, FALSE, GainDevice>>}

\* layers with one output channel
CtorArgs ==
    {Args(SourceLayer("Conv3d", 1, g[1], g[2], g[3], 1, l[1]),
          l[3][1], l[3][2], l[3][3], l[3][4], l[3][5], l[3][6], l[2]) :
        g \in Geometries, l \in TunedLayers}

\* tune(input_batch_size=1, input_shape=sz)
TuneInputs == {MakeInput(1, 1, sz, sz, sz, seed) : sz \in 1..MaxSize, seed \in InputSeeds}

Next ==
    \/ \E a \in CtorArgs : Construct(a)
    \/ \E x \in CubeInputs : Forward(x)
    \/ \E x \in TuneInputs : Tune(x)
    \/ \E e \in BOOLEAN : SetForwardLegacy(e)
    \/ ApplyNonLinear

Spec == Init /\ [][Next]_vars

\* layers with two output channels and every geometry and device, on inputs of
\* every spatial shape
BoxArgs ==
    {Args(SourceLayer("Conv3d", 2, g[1], g[2], g[3], 1, b),
          d[1], d[2], d[3], d[4], d[5], d[6], TRUE) :
        g \in BoxGeometries, b \in SourceBiases(2), d \in BoxDevices}

NextBox ==
    \/ \E a \in BoxArgs : Construct(a)
    \/ \E x \in BoxInputs : Forward(x)
    \/ \E e \in BOOLEAN : SetForwardLegacy(e)
    \/ ApplyNonLinear

SpecBox == Init /\ [][NextBox]_vars

\* every way of calling __init__ on one geometry: source layers of the right and
\* of the wrong class, with and without bias, and valid and invalid settings
CheckedVoltages == {None, PyInt(1), PyFloat(1, 2), PyInt(0), PyInt(-1), PyStr}
CheckedQuantMethods == {NoQuant, QuantMethod("linear"), QuantMethod("bogus")}
CheckedResolutions == {None, PyInt(2), PyInt(0), PyFloat(2, 1)}
CheckedOverflowRates == {PyFloat(0, 1), None}

CheckedArgs ==
    {Args(SourceLayer(c[1], 2, <<2, 2, 2>>, <<1, 1, 1>>, <<0, 0, 0>>, 1, c[2]),
          1, None, v, q[2], q[3], q[1], c[3]) :
        c \in {"Conv3d", "Conv2d"} \X SourceBiases(2) \X BOOLEAN,
        v \in CheckedVoltages,
        q \in CheckedQuantMethods \X CheckedResolutions \X CheckedOverflowRates}

CheckedInputs == {MakeInput(N, 1, 2, 2, 2, 1) : N \in 1..MaxBatch}

NextChecked ==
    \/ \E a \in CheckedArgs : Construct(a)
    \/ \E x \in CheckedInputs : Forward(x)
    \/ \E e \in BOOLEAN : SetForwardLegacy(e)

SpecChecked == Init /\ [][NextChecked]_vars

(***************************************************************************)
(* Properties.                                                             *)
(***************************************************************************)
SimulatedOk ==
    /\ call.op = "forward"
    /\ call.mode = "simulated"
    /\ call.status = "ok"

BatchSlots == Range(call.input.shape[1])

\* C1: in simulated mode, whenever the layer has a bias, the output of forward
\* is the transformed output with the bias added to every batch element
\* 0..N-1.
C1_BiasOnEveryBatchElement ==
    (SimulatedOk /\ ~IsNone(bias)) =>
        call.out = AddBiasTo(ForwardSimulated([Self EXCEPT !.bias = NoBias],
                                              call.input).out,
                             BatchSlots, bias)

\* C2: in simulated mode, every output spatial dimension forward computes is
\* floor((size - kernel + 2 * padding) / stride) + 1, also when the numerator
\* is negative.
C2_OutputDimIsFloor ==
    (call.op = "forward" /\ call.mode = "simulated") =>
        \A a \in 1..3 :
            call.output_dim[a] =
                ((call.input.shape[a + 2] - conv.kernel_size[a] + 2 * conv.padding[a])
                    \div conv.stride[a]) + 1

Numerator(a) ==
    call.input.shape[a + 2] - conv.kernel_size[a] + 2 * conv.padding[a]

\* C2, amended: in simulated mode, for every input whose padded size is at
\* least the kernel size on each axis, every output spatial dimension forward
\* computes is floor((size - kernel + 2 * padding) / stride) + 1, and the
\* output has these dimensions.
C2_OutputDimIsFloorWhenInputFits ==
    (call.op = "forward" /\ call.mode = "simulated"
        /\ \A a \in 1..3 : Numerator(a) >= 0) =>
        /\ \A a \in 1..3 :
              call.output_dim[a] = (Numerator(a) \div conv.stride[a]) + 1
        /\ call.status = "ok" =>
              call.out.shape = <<call.input.shape[1], conv.out_channels,
                                 (Numerator(1) \div conv.stride[1]) + 1,
                                 (Numerator(2) \div conv.stride[2]) + 1,
                                 (Numerator(3) \div conv.stride[3]) + 1>>

C2_Witness ==
    /\ SimulatedOk
    /\ call.input.shape[1] > 1
    /\ \E a \in 1..3 : Numerator(a) % conv.stride[a] # 0
    /\ \E a \in 1..3 : conv.padding[a] > 0

IdealLayer ==
    /\ IsNone(config.tile_shape)
    /\ IsNone(config.quant_method)
    /\ IsNone(config.max_input_voltage)
    /\ ~non_linear
    /\ crossbars = InitCrossbar(weight.data, 1)
    /\ transform_output = Identity

\* C3: on an ideal layer (no tiling, no quantization, no input voltage bound,
\* conductances equal to the unfolded weights, identity transform) the
\* simulated output equals the direct-mode output, for every input that has an
\* output, with or without bias.
C3_IdealSimulatedEqualsDirect ==
    (/\ call.op = "forward"
     /\ call.mode = "simulated"
     /\ IdealLayer
     /\ Conv3dFits(call.input, weight.data, conv.stride, conv.padding)) =>
        /\ call.status = "ok"
        /\ call.out = ForwardDirect(Self, call.input).out

\* C4: a constructed layer has a bias exactly when its source layer has one, and
\* gradient tracking is disabled on its weight and on any bias it holds.
C4_BiasCopiedFromSource ==
    pc = "constructed" =>
        /\ IsNone(bias) <=> IsNone(ctor_args.convolutional_layer.bias)
        /\ ~weight.requires_grad
        /\ ~IsNone(bias) => ~bias.requires_grad

\* C5: every constructed layer holds a max_input_voltage that is None or a
\* strictly positive number; construction fails for any other value.
C5_InvalidVoltageRejected ==
    pc = "constructed" =>
        \/ IsNone(config.max_input_voltage)
        \/ MaxInputVoltageValid(config.max_input_voltage)

InvalidVoltage(v) ==
    /\ ~IsNone(v)
    /\ \/ v.type \notin {"int", "float"}
       \/ ~RLess(R(0), v.val)

\* C5, amended: construction accepts any max_input_voltage; a value that is
\* given but is not a strictly positive number makes every simulated-mode
\* forward call on at least one batch element fail, with an AssertionError
\* when the output dimensions are not negative, so no simulated output is
\* ever computed with it.
C5_InvalidVoltageFailsSimulatedForward ==
    (call.op = "forward" /\ call.mode = "simulated"
        /\ InvalidVoltage(config.max_input_voltage)) =>
        /\ call.status # "ok"
        /\ (\A a \in 1..3 : call.output_dim[a] >= 0) => call.status = "AssertionError"

C5_Witness ==
    /\ call.op = "forward"
    /\ call.mode = "simulated"
    /\ InvalidVoltage(config.max_input_voltage)
    /\ config.max_input_voltage.type = "int"
    /\ call.status = "AssertionError"

\* C6: a quant_method that is neither None nor a supported method never yields
\* a constructed layer, whatever ADC_resolution and ADC_overflow_rate are.
C6_MalformedQuantMethodRejected ==
    pc = "constructed" =>
        \/ IsNone(ctor_args.quant_method)
        \/ ctor_args.quant_method.name \in quant_methods

\* C7: a layer starts with forward_legacy_enabled = true, and while the flag is
\* true forward returns the dense convolution of the input with the stored
\* weight, bias, stride and padding, invoking no crossbar operation, tiling,
\* quantizer or output transform.
C7_StartsInDirectMode ==
    /\ (pc = "constructed" /\ call.op = "__init__") => forward_legacy_enabled
    /\ (call.op = "forward" /\ forward_legacy_enabled) =>
          /\ call.invoked = {}
          /\ Conv3dFits(call.input, weight.data, conv.stride, conv.padding) =>
                /\ call.status = "ok"
                /\ call.out = Conv3dFunctional(call.input, weight.data, bias,
                                               conv.stride, conv.padding)

C7_Witness ==
    /\ call.op = "forward"
    /\ forward_legacy_enabled
    /\ call.status = "ok"
    /\ call.input.shape[1] > 1
    /\ ~IsNone(bias)
    /\ ~IsNone(config.tile_shape)

\* C8: after a tune call the transform in effect is the affine map fitted
\* against the raw simulated output, whatever transform an earlier tune call
\* installed.
C8_TuneFitsRawOutput ==
    (call.op = "tune" /\ call.status = "ok") =>
        transform_output =
            NaiveTune([Self EXCEPT !.transform_output = Identity],
                      call.input).transform_output

\* C9: init_crossbar is called exactly once, at construction; afterwards no
\* call changes the crossbars, the weight, the bias, the convolution descriptor
\* or the configuration, and a forward call also leaves the output transform
\* and forward_legacy_enabled unchanged.
C9_LayerFrozenAfterConstruction ==
    [][/\ pc = "constructed" =>
            /\ pc' = pc
            /\ layer' = layer
            /\ init_crossbar_calls = 1
            /\ init_crossbar_calls' = 1
       /\ call'.op = "forward" =>
            /\ transform_output' = transform_output
            /\ forward_legacy_enabled' = forward_legacy_enabled]_vars

C9_Witness ==
    /\ call.op = "forward"
    /\ call.status = "ok"
    /\ call.mode = "simulated"
    /\ transform_output.kind = "affine"
    /\ transform_output.scale # R(1)
    /\ ~IsNone(bias)

\* C10: in simulated mode every dispatch path writes the reshaped matmul result
\* into the batch slot of every batch element.
C10_EverySlotWritten == SimulatedOk => call.written = BatchSlots
====
